---- MODULE Spec2Model ----
(***************************************************************************)
(* Model of hospitals_etl.py: the daily ETL job that reads the CMS         *)
(* metastore catalog, keeps the "Hospitals" datasets, downloads the ones   *)
(* whose "modified" marker differs from run_metadata.json, and rewrites    *)
(* run_metadata.json.                                                      *)
(*                                                                         *)
(* One run of main() is the path of pc:                                    *)
(*   idle -> loaded -> dispatch -> collect -> save -> saving -> report     *)
(*        -> done -> idle                                                  *)
(* with the early return (empty todo) going loaded -> save -> saving ->    *)
(* done, and the fatal exits failed_load, failed_catalog, failed_save and  *)
(* failed_item.  The job is started again by the next StartRun; the        *)
(* watermark file (disk) and the served catalog (remote) outlive the run.  *)
(*                                                                         *)
(* Spec runs the job again and again against a catalog of up to            *)
(* MaxDatasets datasets that changes between runs.  SpecPool runs it       *)
(* against one catalog of MAX_THREADS + 1 datasets, some of them without   *)
(* a download URL.  SpecUrl runs it against one dataset with any           *)
(* distribution list of up to MaxEntries entries, and SpecSnake against    *)
(* one dataset whose table has any header of up to MaxHeaderLen            *)
(* characters.                                                             *)
(***************************************************************************)
EXTENDS Integers, Sequences, FiniteSets, TLC

\* ---------------------------------------------------------------- bounds
MaxDatasets == 2        \* dataset identifiers are 1..MaxDatasets
MaxMarker == 2          \* "modified" markers are 1..MaxMarker
MaxEntries == 3         \* longest distribution list of SpecUrl
MaxHeaderLen == 3       \* longest enumerated header of SpecSnake

\* ------------------------------------------------------------- constants
MAX_THREADS == 8
THEME == "Hospitals"
None == 0               \* Python's None: dict.get() of a missing key

Identifiers == 1 .. MaxDatasets
Markers == 1 .. MaxMarker

\* ------------------------------------------------------- catalog records
\* a theme list without THEME
OtherTheme == {"Physician office visit costs"}

\* a distribution entry is {mediaType, downloadURL}; URLs are numbered
CsvEntry(u) == [mediaType |-> "text/csv", downloadURL |-> u]
JsonEntry(u) == [mediaType |-> "application/json", downloadURL |-> u]

\* the distribution list of a dataset that can be downloaded
Downloadable == <<JsonEntry(1), CsvEntry(2)>>

Descriptor(id, m, th, dist) ==
    [identifier |-> id, modified |-> m, theme |-> th, distribution |-> dist]

\* what the metastore can publish for one dataset: a Hospitals dataset
\* with any marker, or a dataset of another theme
Versions ==
    {[modified |-> m, theme |-> {THEME}, distribution |-> Downloadable] :
        m \in Markers}
    \cup {[modified |-> 1, theme |-> OtherTheme,
           distribution |-> <<CsvEntry(1)>>]}

Min(S) == CHOOSE x \in S : \A y \in S : x <= y

RECURSIVE CatalogOf(_, _)
\* the catalog listing the datasets S in ascending order of identifier,
\* dataset i as f[i]
CatalogOf(S, f) ==
    IF S = {} THEN <<>>
    ELSE LET i == Min(S)
         IN <<Descriptor(i, f[i].modified, f[i].theme, f[i].distribution)>>
              \o CatalogOf(S \ {i}, f)

\* the responses the metastore endpoint can give
RemoteCatalogs ==
    UNION {{CatalogOf(S, f) : f \in [S -> Versions]} : S \in SUBSET Identifiers}

EmptyMap == [k \in {} |-> None]

\* ------------------------------------------------------------ variables
VARIABLES
    remote,      \* the JSON list the metastore serves at META_URL
    disk,        \* run_metadata.json: [exists, complete, map]
    pc,          \* position of main()
    old_meta,    \* main: old_meta
    new_meta,    \* main: new_meta
    catalog,     \* main: the list returned by fetch_catalog()
    todo,        \* main: todo
    fut,         \* main: future_to_ds, i |-> [status, raised, result,
                 \* requested, wrote]
    successful,  \* main: successful
    failed,      \* main: failed
    summary,     \* the counts of the "ETL job complete" log line
    disk0,       \* history: run_metadata.json as it was when the run began
    netUsed,     \* history: a content request was issued in this run
    lastFailed,  \* history: identifier |-> marker of the downloads that
                 \* failed in the last run that completed
    served,      \* the header row of the CSV tables the download URLs serve
    files        \* the files the run has written to the end in target_dir:
                 \* path |-> column names

vars == <<remote, disk, pc, old_meta, new_meta, catalog, todo, fut,
          successful, failed, summary, disk0, netUsed, lastFailed, served,
          files>>

procVars == <<old_meta, new_meta, catalog, todo, fut, successful, failed,
              summary, files>>

\* ------------------------------------------------------ watermark store
AbsentFile == [exists |-> FALSE, complete |-> FALSE, map |-> EmptyMap]
EmptyFile == [exists |-> TRUE, complete |-> FALSE, map |-> EmptyMap]
FileOf(m) == [exists |-> TRUE, complete |-> TRUE, map |-> m]

\* dict.get(key): the value, or None for a missing key
MetaGet(meta, key) == IF key \in DOMAIN meta THEN meta[key] ELSE None

\* meta[key] = value
MetaSet(meta, key, value) ==
    [k \in DOMAIN meta \cup {key} |-> IF k = key THEN value ELSE meta[k]]

\* load_meta(): {} without a file, the parsed map of a well-formed file,
\* and json.load raises on an empty or cut-off file
load_meta(file) ==
    IF ~file.exists THEN [raised |-> FALSE, value |-> EmptyMap]
    ELSE IF file.complete THEN [raised |-> FALSE, value |-> file.map]
    ELSE [raised |-> TRUE, value |-> EmptyMap]

\* ----------------------------------------------------- header normalizer
\* A header is a sequence of characters.  Characters are written as
\* one-character strings, and three non-ASCII ones by their code point:
\*   U+0130  LATIN CAPITAL LETTER I WITH DOT ABOVE, a letter whose
\*           str.lower() is the two characters "i" U+0307
\*   U+0307  COMBINING DOT ABOVE, a mark: neither \w nor \s
\*   U+2102  DOUBLE-STRUCK CAPITAL C, an uppercase letter (category Lu)
\*           that str.lower() leaves as it is
LowerLetters == {"a", "c", "d", "e", "i", "m", "n", "o", "p", "s", "t", "z"}
UpperLetters == {"A", "C", "I", "N", "P", "Z"}
LowerCase ==
    ("A" :> "a") @@ ("C" :> "c") @@ ("I" :> "i") @@ ("N" :> "n")
    @@ ("P" :> "p") @@ ("Z" :> "z")

\* \s of re and the characters str.strip() removes
IsSpace(c) == c \in {" ", "\t"}
\* \w of re: letters, digits and the underscore
IsWord(c) ==
    c \in LowerLetters \cup UpperLetters \cup {"_", "1", "U+0130", "U+2102"}

\* str.lower() of one character
Lower(c) ==
    IF c \in DOMAIN LowerCase THEN <<LowerCase[c]>>
    ELSE IF c = "U+0130" THEN <<"i", "U+0307">>
    ELSE <<c>>

RECURSIVE StripLeft(_)
StripLeft(s) ==
    IF s # <<>> /\ IsSpace(Head(s)) THEN StripLeft(Tail(s)) ELSE s

RECURSIVE StripRight(_)
StripRight(s) ==
    IF s # <<>> /\ IsSpace(s[Len(s)])
    THEN StripRight(SubSeq(s, 1, Len(s) - 1)) ELSE s

\* col.strip()
Strip(s) == StripRight(StripLeft(s))

\* .replace("'", "")
DeleteApostrophes(s) == SelectSeq(s, LAMBDA c : c # "'")

\* re.sub(r"[^\w\s]", "", s)
DeleteNonWord(s) == SelectSeq(s, LAMBDA c : IsWord(c) \/ IsSpace(c))

RECURSIVE CollapseSpaces(_)
\* re.sub(r"\s+", "_", s)
CollapseSpaces(s) ==
    IF s = <<>> THEN <<>>
    ELSE IF IsSpace(Head(s)) THEN <<"_">> \o CollapseSpaces(StripLeft(s))
    ELSE <<Head(s)>> \o CollapseSpaces(Tail(s))

RECURSIVE LowerAll(_)
\* s.lower()
LowerAll(s) ==
    IF s = <<>> THEN <<>> ELSE Lower(Head(s)) \o LowerAll(Tail(s))

\* to_snake with the whitespace runs replaced before the deletions
to_snake_collapseFirst(col) ==
    LowerAll(DeleteNonWord(CollapseSpaces(DeleteApostrophes(Strip(col)))))

\* to_snake(col), line 20
to_snake(col) ==
    LowerAll(CollapseSpaces(DeleteNonWord(DeleteApostrophes(Strip(col)))))

\* df.columns = [to_snake(c) for c in df.columns], line 86
NormalizeColumns(columns) ==
    [k \in 1 .. Len(columns) |-> to_snake(columns[k])]

\* the header row of the tables served to Spec and SpecPool: "ZIP Code"
PlainHeaders == <<<<"Z", "I", "P", " ", "C", "o", "d", "e">>>>

\* ------------------------------------------------------- catalog client
\* mutant: the catalog as served, without the filter
fetch_catalog_unfiltered(data) == data

\* fetch_catalog(): the records whose theme list contains THEME
fetch_catalog(data) == SelectSeq(data, LAMBDA d : THEME \in d.theme)

\* ------------------------------------------------------ change detector
\* mutant: the markers compared by order, a later one needing the update
needs_update_ordered(ds, meta) == MetaGet(meta, ds.identifier) < ds.modified

needs_update(ds, meta) == MetaGet(meta, ds.identifier) # ds.modified

RECURSIVE ScanLoop_recordInsideIf(_, _, _, _)
\* mutant: the marker recorded inside the if, for work items only
ScanLoop_recordInsideIf(cat, old, td, nm) ==
    IF cat = <<>> THEN [todo |-> td, new_meta |-> nm]
    ELSE LET ds == Head(cat)
         IN IF needs_update(ds, old)
            THEN ScanLoop_recordInsideIf(Tail(cat), old, Append(td, ds),
                                         MetaSet(nm, ds.identifier, ds.modified))
            ELSE ScanLoop_recordInsideIf(Tail(cat), old, td, nm)

RECURSIVE ScanLoop_carryOver(_, _, _, _)
\* mutant: new_meta updated on top of the loaded map
ScanLoop_carryOver(cat, old, td, nm) ==
    IF cat = <<>>
    THEN [todo |-> td,
          new_meta |-> [k \in DOMAIN old \cup DOMAIN nm |->
                          IF k \in DOMAIN nm THEN nm[k] ELSE old[k]]]
    ELSE LET ds == Head(cat)
         IN ScanLoop_carryOver(Tail(cat), old,
                               IF needs_update(ds, old) THEN Append(td, ds)
                               ELSE td,
                               MetaSet(nm, ds.identifier, ds.modified))

RECURSIVE ScanLoop(_, _, _, _)
\* main, lines 108-112: the loop over the catalog, from (td, nm)
ScanLoop(cat, old, td, nm) ==
    IF cat = <<>> THEN [todo |-> td, new_meta |-> nm]
    ELSE LET ds == Head(cat)
         IN ScanLoop(Tail(cat), old,
                     IF needs_update(ds, old) THEN Append(td, ds) ELSE td,
                     MetaSet(nm, ds.identifier, ds.modified))

\* ------------------------------------------------------ dataset fetcher
RECURSIVE FirstCsv(_)
\* the loop of get_csv_url: downloadURL of the first text/csv entry
FirstCsv(distributions) ==
    IF distributions = <<>> THEN None
    ELSE IF Head(distributions).mediaType = "text/csv"
         THEN Head(distributions).downloadURL
         ELSE FirstCsv(Tail(distributions))

\* get_csv_url without its loop: the fallback alone
get_csv_url_fallbackOnly(ds) ==
    IF ds.distribution # <<>> THEN ds.distribution[1].downloadURL
    ELSE None

get_csv_url(ds) ==
    IF \E k \in 1 .. Len(ds.distribution) :
           ds.distribution[k].mediaType = "text/csv"
    THEN FirstCsv(ds.distribution)
    ELSE IF ds.distribution # <<>> THEN ds.distribution[1].downloadURL
    ELSE None

\* mutant: the file named after the marker of the dataset
OutPath_byMarker(ds) == ds.modified

\* os.path.join(out_dir, f"{dsid}.csv"), line 89: the files of one run are
\* in one directory, so the path is given by the file name's stem
OutPath(ds) == ds.identifier

\* What the network, the CSV parser and the file system answer to one
\* download: requests.get, the three pd.read_csv calls, df.to_csv.
Responses ==
    [get : {"ok", "error"},
     strict : {"ok", "ParserError", "error"},
     skip : {"ok", "error"},
     latin : {"ok", "error"},
     to_csv : {"ok", "partial", "error"}]

\* the three pd.read_csv calls, lines 74-83: the calls made, in order, and
\* whether the last one returned a table
ParseLadder(env) ==
    IF env.strict = "ok" THEN [ok |-> TRUE, attempts |-> <<"strict">>]
    ELSE IF env.strict # "ParserError"
         THEN [ok |-> FALSE, attempts |-> <<"strict">>]
    ELSE IF env.skip = "ok"
         THEN [ok |-> TRUE, attempts |-> <<"strict", "skip">>]
    ELSE [ok |-> env.latin = "ok", attempts |-> <<"strict", "skip", "latin">>]

\* mutant: the file is written and the end of the try body reached
\* whatever failed before
Attempt_writesAlways(env) ==
    [raised |-> FALSE, requests |-> 1 + Len(ParseLadder(env).attempts),
     file |-> "complete"]

\* lines 71-93, what download does with a URL: whether an exception leaves
\* the try body, the requests sent to the URL (requests.get, and every
\* pd.read_csv(csv_url) opens the URL again), and what is left at the
\* output path: nothing, a file that df.to_csv began and did not finish,
\* or the complete file
Attempt(env) ==
    IF env.get # "ok" THEN [raised |-> TRUE, requests |-> 1, file |-> "none"]
    ELSE LET parse == ParseLadder(env)
             n == 1 + Len(parse.attempts)
         IN IF ~parse.ok
            THEN [raised |-> TRUE, requests |-> n, file |-> "none"]
            ELSE IF env.to_csv = "ok"
            THEN [raised |-> FALSE, requests |-> n, file |-> "complete"]
            ELSE [raised |-> TRUE, requests |-> n,
                  file |-> IF env.to_csv = "partial" THEN "partial"
                           ELSE "none"]

\* what lines 71-93 can do, over all answers
Attempts == {Attempt(env) : env \in Responses}

Return(ds, success, n, w) ==
    [kind |-> "return", value |-> <<ds.identifier, ds.modified, success>>,
     requests |-> n, wrote |-> w, file |-> IF w THEN "complete" ELSE "none"]
Raise(n, f) ==
    [kind |-> "raise", value |-> <<None, None, FALSE>>, requests |-> n,
     wrote |-> FALSE, file |-> f]

\* the body of the try statement of download, lines 63-93, when lines
\* 71-93 do a
TryBodyOf(ds, a) ==
    IF get_csv_url(ds) = None THEN Return(ds, FALSE, 0, FALSE)
    ELSE IF a.raised THEN Raise(a.requests, a.file)
    ELSE Return(ds, TRUE, a.requests, TRUE)

TryBody(ds, env) == TryBodyOf(ds, Attempt(env))

\* mutant: the exception is logged and raised again
ExceptHandler_reraise(ds, r) == r

\* except Exception, lines 95-97
ExceptHandler(ds, r) ==
    IF r.kind = "raise"
    THEN [r EXCEPT !.kind = "return",
                   !.value = <<ds.identifier, ds.modified, FALSE>>]
    ELSE r

download(ds, env) == ExceptHandler(ds, TryBody(ds, env))

\* the effects download(ds, out_dir) can have
Outcomes(ds) == {ExceptHandler(ds, TryBodyOf(ds, a)) : a \in Attempts}

\* ---------------------------------------------------------- worker pool
\* the future of a download that ended with effect r, and the file it
\* left: a file cut off by a failed df.to_csv counts as none
Finished(r) ==
    [future |-> [status |-> "finished",
                 raised |-> (r.kind = "raise"),
                 result |-> r.value,
                 requested |-> (r.requests > 0),
                 wrote |-> r.wrote],
     file |-> IF r.file = "complete" THEN "complete" ELSE "none"]

\* the work items a worker thread is busy with
Running(f) == {i \in DOMAIN f : f[i].status \in {"running", "blocked"}}

\* mutant: a thread per work item
WorkerAvailable_unbounded(f) == TRUE

\* ThreadPoolExecutor(MAX_THREADS): a work item is taken from the queue
\* only by one of at most MAX_THREADS worker threads
WorkerAvailable(f) == Cardinality(Running(f)) < MAX_THREADS

\* mutant: the pool shut down without waiting, once the queue is empty
JoinAll_started(f) == \A i \in DOMAIN f : f[i].status # "queued"

\* the end of the for loop over as_completed and of the with block
JoinAll(f) == \A i \in DOMAIN f : f[i].status = "collected"

\* main, lines 129-134: the two counters, for an outcome's success flag
CountSuccess(n, success) == IF success THEN n + 1 ELSE n
\* mutant: the failure counter incremented outside the else
CountFailure_always(n, success) == n + 1
CountFailure(n, success) == IF success THEN n ELSE n + 1

\* no worker thread of the process has work left
PoolQuiet == \A i \in DOMAIN fut : fut[i].status \in {"finished", "collected"}

\* ------------------------------------------------------------- actions
NoProc ==
    /\ old_meta = EmptyMap /\ new_meta = EmptyMap
    /\ catalog = <<>> /\ todo = <<>> /\ fut = <<>>
    /\ successful = 0 /\ failed = 0 /\ summary = <<>>
    /\ files = EmptyMap

Init ==
    /\ remote \in RemoteCatalogs
    /\ disk = AbsentFile
    /\ pc = "idle"
    /\ NoProc
    /\ disk0 = AbsentFile
    /\ netUsed = FALSE
    /\ lastFailed = EmptyMap
    /\ served = PlainHeaders

\* the identifiers the served catalog lists, and what it lists for each
Listed == {remote[k].identifier : k \in 1 .. Len(remote)}
Published ==
    [i \in Listed |->
       LET d == remote[CHOOSE k \in 1 .. Len(remote) : remote[k].identifier = i]
       IN [modified |-> d.modified, theme |-> d.theme,
           distribution |-> d.distribution]]

\* between runs the source catalog withdraws a dataset, or publishes a new
\* dataset or a new version of a listed one
Republish ==
    /\ pc = "idle"
    /\ \E i \in Identifiers :
          \/ /\ i \in Listed
             /\ remote' = CatalogOf(Listed \ {i}, Published)
          \/ \E v \in Versions :
                /\ i \in Listed => v # Published[i]
                /\ remote' = CatalogOf(Listed \cup {i},
                                       [j \in Listed \cup {i} |->
                                          IF j = i THEN v ELSE Published[j]])
    /\ UNCHANGED <<served, disk, pc, procVars, disk0, netUsed, lastFailed>>

\* main, lines 100-105: the job starts and loads run_metadata.json
StartRun ==
    /\ pc = "idle"
    /\ LET r == load_meta(disk)
       IN /\ pc' = IF r.raised THEN "failed_load" ELSE "loaded"
          /\ old_meta' = r.value
    /\ disk0' = disk
    /\ netUsed' = FALSE
    /\ UNCHANGED <<served, remote, disk, new_meta, catalog, todo, fut,
                   successful, failed, summary, lastFailed, files>>

\* main, lines 108-117: fetch_catalog() answers and the loop builds todo
\* and new_meta
FetchCatalog ==
    /\ pc = "loaded"
    /\ LET cat == fetch_catalog(remote)
           r == ScanLoop(cat, old_meta, <<>>, EmptyMap)
       IN /\ catalog' = cat
          /\ todo' = r.todo
          /\ new_meta' = r.new_meta
          /\ pc' = IF r.todo = <<>> THEN "save" ELSE "dispatch"
    /\ UNCHANGED <<served, remote, disk, old_meta, fut, successful, failed,
                   summary, disk0, netUsed, lastFailed, files>>

\* mutant: the (empty) new map is saved before the exception leaves main
FetchCatalogFail_savesFirst ==
    /\ pc = "loaded"
    /\ disk' = FileOf(new_meta)
    /\ pc' = "failed_catalog"
    /\ UNCHANGED <<served, remote, procVars, disk0, netUsed, lastFailed>>

\* fetch_catalog, lines 38-40: the request or the JSON decoding fails and
\* the exception leaves main
FetchCatalogFail ==
    /\ pc = "loaded"
    /\ pc' = "failed_catalog"
    /\ UNCHANGED <<served, remote, disk, procVars, disk0, netUsed, lastFailed>>

\* main, lines 121-125: one future per work item, submitted in todo order
Dispatch ==
    /\ pc = "dispatch"
    /\ fut' = [i \in 1 .. Len(todo) |->
                  [status |-> "queued", raised |-> FALSE,
                   result |-> <<None, None, FALSE>>,
                   requested |-> FALSE, wrote |-> FALSE]]
    /\ successful' = 0
    /\ failed' = 0
    /\ pc' = "collect"
    /\ lastFailed' = EmptyMap
    /\ UNCHANGED <<served, remote, disk, old_meta, new_meta, catalog, todo,
                   summary, disk0, netUsed, files>>

\* a worker thread takes the next work item of the pool's queue
StartDownload(i) ==
    /\ i \in DOMAIN fut
    /\ fut[i].status = "queued"
    /\ \A j \in 1 .. i - 1 : fut[j].status # "queued"
    /\ WorkerAvailable(fut)
    /\ fut' = [fut EXCEPT ![i].status = "running"]
    /\ UNCHANGED <<served, remote, disk, pc, old_meta, new_meta, catalog,
                   todo, successful, failed, summary, disk0, netUsed,
                   lastFailed, files>>

\* download(ds, out_dir) runs to its return (or to the exception it lets out)
FinishDownload(i) ==
    /\ i \in DOMAIN fut
    /\ fut[i].status = "running"
    /\ \E f \in {Finished(r) : r \in Outcomes(todo[i])} :
            /\ fut' = [fut EXCEPT ![i] = f.future]
            /\ netUsed' = (netUsed \/ f.future.requested)
            /\ files' = IF f.file = "complete"
                        THEN MetaSet(files, OutPath(todo[i]),
                                     NormalizeColumns(served))
                        ELSE files
    /\ UNCHANGED <<served, remote, disk, pc, old_meta, new_meta, catalog,
                   todo, successful, failed, summary, disk0, lastFailed>>

\* a pd.read_csv(csv_url) call of the download gets no answer: it opens
\* the URL without a timeout, and the worker thread stays in it
Hang(i) ==
    /\ i \in DOMAIN fut
    /\ fut[i].status = "running"
    /\ get_csv_url(todo[i]) # None
    /\ fut' = [fut EXCEPT ![i].status = "blocked", ![i].requested = TRUE]
    /\ netUsed' = TRUE
    /\ UNCHANGED <<served, remote, disk, pc, old_meta, new_meta, catalog,
                   todo, successful, failed, summary, disk0, lastFailed, files>>

\* mutant: the collection loop takes the entry of a failed download out
\* of the new map
Collect_dropsFailed(i) ==
    /\ pc = "collect"
    /\ i \in DOMAIN fut
    /\ fut[i].status = "finished"
    /\ fut' = [fut EXCEPT ![i].status = "collected"]
    /\ IF fut[i].raised
       THEN /\ pc' = "failed_item"
            /\ UNCHANGED <<successful, failed>>
       ELSE /\ pc' = pc
            /\ successful' = CountSuccess(successful, fut[i].result[3])
            /\ failed' = CountFailure(failed, fut[i].result[3])
    /\ new_meta' = IF fut[i].result[3] THEN new_meta
                   ELSE [k \in DOMAIN new_meta \ {todo[i].identifier} |->
                           new_meta[k]]
    /\ UNCHANGED <<served, remote, disk, old_meta, catalog, todo,
                   summary, disk0, netUsed, lastFailed, files>>

\* main, lines 127-134: as_completed yields a finished future and
\* future.result() returns its outcome, or raises what download raised
Collect(i) ==
    /\ pc = "collect"
    /\ i \in DOMAIN fut
    /\ fut[i].status = "finished"
    /\ fut' = [fut EXCEPT ![i].status = "collected"]
    /\ IF fut[i].raised
       THEN /\ pc' = "failed_item"
            /\ UNCHANGED <<successful, failed>>
       ELSE /\ pc' = pc
            /\ successful' = CountSuccess(successful, fut[i].result[3])
            /\ failed' = CountFailure(failed, fut[i].result[3])
    /\ UNCHANGED <<served, remote, disk, old_meta, new_meta, catalog, todo,
                   summary, disk0, netUsed, lastFailed, files>>

\* main, lines 127-135: as_completed is exhausted and the pool shut down
ExitPool ==
    /\ pc = "collect"
    /\ JoinAll(fut)
    /\ pc' = "save"
    /\ UNCHANGED <<served, remote, disk, procVars, disk0, netUsed, lastFailed>>

\* save_meta, open(META_FILE, "w"): the file is created or cut to length 0
SaveOpen ==
    /\ pc = "save"
    /\ disk' = EmptyFile
    /\ pc' = "saving"
    /\ lastFailed' = EmptyMap
    /\ UNCHANGED <<served, remote, procVars, disk0, netUsed>>

\* save_meta, json.dump: the next entry of the map reaches the file.
\* A dict is written in insertion order, which for new_meta is the order
\* of the catalog: ascending identifiers.
SaveWrite ==
    /\ pc = "saving"
    /\ DOMAIN new_meta \ DOMAIN disk.map # {}
    /\ LET key == Min(DOMAIN new_meta \ DOMAIN disk.map)
       IN disk' = [disk EXCEPT !.map = MetaSet(disk.map, key, new_meta[key])]
    /\ UNCHANGED <<served, remote, pc, procVars, disk0, netUsed, lastFailed>>

\* the failed downloads of the run: identifier |-> marker
FailedItems ==
    LET F == {i \in DOMAIN fut : ~fut[i].result[3]}
    IN [id \in {todo[i].identifier : i \in F} |->
          todo[CHOOSE i \in F : todo[i].identifier = id].modified]

\* save_meta: the closing brace is written and the file closed; main
\* returns (line 117) or goes on to the summary (line 137)
SaveClose ==
    /\ pc = "saving"
    /\ DOMAIN disk.map = DOMAIN new_meta
    /\ disk' = [disk EXCEPT !.complete = TRUE]
    /\ pc' = IF todo = <<>> THEN "done" ELSE "report"
    /\ lastFailed' = FailedItems
    /\ UNCHANGED <<served, remote, procVars, disk0, netUsed>>

\* save_meta: a write fails (disk full, I/O error) and the exception
\* leaves main
SaveFail ==
    /\ pc = "saving"
    /\ pc' = "failed_save"
    /\ UNCHANGED <<served, remote, disk, procVars, disk0, netUsed, lastFailed>>

\* main, line 137: the summary line
Report ==
    /\ pc = "report"
    /\ summary' = <<successful, failed>>
    /\ pc' = "done"
    /\ UNCHANGED <<served, remote, disk, old_meta, new_meta, catalog, todo,
                   fut, successful, failed, disk0, netUsed, lastFailed, files>>

\* the process ends: main returned or an exception left it, and the
\* interpreter has joined the worker threads
Exit ==
    /\ pc \in {"done", "failed_load", "failed_catalog", "failed_save",
               "failed_item"}
    /\ PoolQuiet
    /\ pc' = "idle"
    /\ old_meta' = EmptyMap /\ new_meta' = EmptyMap
    /\ catalog' = <<>> /\ todo' = <<>> /\ fut' = <<>>
    /\ successful' = 0 /\ failed' = 0 /\ summary' = <<>>
    /\ files' = EmptyMap
    /\ disk0' = disk
    /\ netUsed' = FALSE
    /\ UNCHANGED <<served, remote, disk, lastFailed>>

Next ==
    \/ Republish
    \/ StartRun
    \/ FetchCatalog
    \/ FetchCatalogFail
    \/ Dispatch
    \/ \E i \in DOMAIN fut : StartDownload(i)
    \/ \E i \in DOMAIN fut : FinishDownload(i)
    \/ \E i \in DOMAIN fut : Hang(i)
    \/ \E i \in DOMAIN fut : Collect(i)
    \/ ExitPool
    \/ SaveOpen
    \/ SaveWrite
    \/ SaveClose
    \/ SaveFail
    \/ Report
    \/ Exit

Spec == Init /\ [][Next]_vars

\* ------------------------------------------- a catalog larger than the pool
PoolDatasets == MAX_THREADS + 1

\* MAX_THREADS + 1 Hospitals datasets; the first two can be downloaded,
\* the others have an empty distribution list
PoolCatalog ==
    CatalogOf(1 .. PoolDatasets,
              [i \in 1 .. PoolDatasets |->
                 [modified |-> 1, theme |-> {THEME},
                  distribution |-> IF i <= 2 THEN Downloadable ELSE <<>>]])

InitPool ==
    /\ remote = PoolCatalog
    /\ disk = AbsentFile
    /\ pc = "idle"
    /\ NoProc
    /\ disk0 = AbsentFile
    /\ netUsed = FALSE
    /\ lastFailed = EmptyMap
    /\ served = PlainHeaders

\* the job run again and again against an unchanging catalog
NextPool ==
    \/ StartRun
    \/ FetchCatalog
    \/ FetchCatalogFail
    \/ Dispatch
    \/ \E i \in DOMAIN fut : StartDownload(i)
    \/ \E i \in DOMAIN fut : FinishDownload(i)
    \/ \E i \in DOMAIN fut : Hang(i)
    \/ \E i \in DOMAIN fut : Collect(i)
    \/ ExitPool
    \/ SaveOpen
    \/ SaveWrite
    \/ SaveClose
    \/ SaveFail
    \/ Report
    \/ Exit

SpecPool == InitPool /\ [][NextPool]_vars

\* --------------------------------------- one dataset, any distribution list
\* the entries a distribution list is made of: either media type, with
\* downloadURL 1 or 2 or without one (dist.get gives None)
Entries ==
    {CsvEntry(u) : u \in {None, 1, 2}} \cup {JsonEntry(u) : u \in {None, 1, 2}}

DistributionLists == UNION {[1 .. n -> Entries] : n \in 0 .. MaxEntries}

InitUrl ==
    /\ \E d \in DistributionLists : remote = <<Descriptor(1, 1, {THEME}, d)>>
    /\ disk = AbsentFile
    /\ pc = "idle"
    /\ NoProc
    /\ disk0 = AbsentFile
    /\ netUsed = FALSE
    /\ lastFailed = EmptyMap
    /\ served = PlainHeaders

SpecUrl == InitUrl /\ [][NextPool]_vars

\* =================================================================== claims
\* the Hospitals records of the served catalog
ThemeRecords == {k \in 1 .. Len(remote) : THEME \in remote[k].theme}

\* identifiers of the work list; identifiers of the catalog of the run
TodoIds == {todo[i].identifier : i \in 1 .. Len(todo)}
CatalogIds == {catalog[k].identifier : k \in 1 .. Len(catalog)}

\* items whose outcome is known, by success flag
Succeeded == {i \in DOMAIN fut : fut[i].status \in {"finished", "collected"}
                                  /\ fut[i].result[3]}
Failed == {i \in DOMAIN fut : fut[i].status \in {"finished", "collected"}
                               /\ ~fut[i].result[3]}
Collected == {i \in DOMAIN fut : fut[i].status = "collected"}

\* C1: once the catalog was fetched and save_meta has completed, the
\* watermark file holds, for every Hospitals record of the catalog, that
\* record's modified marker - for skipped, downloaded and failed datasets.
C1_WatermarkRecordsEveryCatalogMarker ==
    pc \in {"report", "done"} =>
        /\ disk.exists /\ disk.complete
        /\ \A k \in ThemeRecords :
              /\ remote[k].identifier \in DOMAIN disk.map
              /\ disk.map[remote[k].identifier] = remote[k].modified

\* a completed run that skipped one dataset and failed to download another
C1_Witness ==
    /\ pc = "done"
    /\ Len(catalog) = 2 /\ Len(todo) = 1
    /\ Failed = {1}

\* C2: a catalog record is in the work list iff the loaded map has no entry
\* for its identifier or the entry differs from its marker; so against the
\* empty map every record is, against the map that records its marker it
\* is not, and with any other marker it is again.
C2_NeedsUpdateIffAbsentOrDifferent ==
    pc \in {"dispatch", "collect", "save"} =>
        /\ \A k \in 1 .. Len(catalog) :
              LET ds == catalog[k]
              IN /\ (ds.identifier \in TodoIds) <=>
                       (\/ ds.identifier \notin DOMAIN old_meta
                        \/ old_meta[ds.identifier] # ds.modified)
                 /\ needs_update(ds, EmptyMap)
                 /\ ~needs_update(ds, new_meta)
                 /\ \A m \in Markers \ {ds.modified} :
                       needs_update([ds EXCEPT !.modified = m], new_meta)
        /\ old_meta = EmptyMap => todo = catalog

\* a scan that skipped a recorded dataset and took one whose marker went
\* from a later to an earlier value
C2_Witness ==
    /\ pc = "dispatch"
    /\ \E k \in 1 .. Len(catalog) : catalog[k].identifier \notin TodoIds
    /\ \E i \in 1 .. Len(todo) :
          /\ todo[i].identifier \in DOMAIN old_meta
          /\ old_meta[todo[i].identifier] > todo[i].modified

\* C3: whatever stage of download fails, download returns (identifier,
\* marker, False) of its own descriptor and lets no exception out, so the
\* collection loop is never left through an item's error.
C3_DownloadNeverRaises ==
    /\ pc # "failed_item"
    /\ pc = "dispatch" =>
          \A i \in 1 .. Len(todo), env \in Responses :
              LET r == download(todo[i], env)
              IN /\ r.kind = "return"
                 /\ r.value[1] = todo[i].identifier
                 /\ r.value[2] = todo[i].modified
                 /\ (TryBody(todo[i], env).kind = "raise" => ~r.value[3])
                 /\ (get_csv_url(todo[i]) = None => ~r.value[3])
    /\ \A i \in DOMAIN fut :
          fut[i].status \in {"finished", "collected"} =>
                /\ ~fut[i].raised
                /\ fut[i].result[1] = todo[i].identifier
                /\ fut[i].result[2] = todo[i].modified

\* a run that went on to its summary after one download succeeded, one
\* failed after its URL was resolved and the others had no URL
C3_Witness ==
    /\ pc = "done"
    /\ summary # <<>>
    /\ \E i \in Failed : get_csv_url(todo[i]) # None
    /\ \E i \in Failed : get_csv_url(todo[i]) = None
    /\ Succeeded # {}

\* C4: every work item has one future and one outcome; the counters count
\* each collected outcome once, by its own flag; the summary's two counts
\* add up to the number of work items.
C4_OneOutcomePerItem ==
    pc \in {"collect", "save", "saving", "report", "done"} /\ todo # <<>> =>
        /\ DOMAIN fut = 1 .. Len(todo)
        /\ successful = Cardinality(Collected \cap Succeeded)
        /\ failed = Cardinality(Collected \cap Failed)
        /\ summary # <<>> =>
              /\ summary[1] + summary[2] = Len(todo)
              /\ summary[1] = Cardinality(Succeeded)
              /\ summary[2] = Cardinality(Failed)

\* a summary of one successful and one failed download
C4_Witness ==
    /\ pc = "done"
    /\ summary = <<1, 1>>
    /\ fut[1].result[3] /\ ~fut[2].result[3]

\* the loaded map already records the marker of every Hospitals record
AllMatch ==
    \A k \in ThemeRecords :
        /\ remote[k].identifier \in DOMAIN old_meta
        /\ old_meta[remote[k].identifier] = remote[k].modified

\* the entries of meta for the identifiers in S
Restrict(meta, S) == [k \in DOMAIN meta \cap S |-> meta[k]]

\* C5 (as stated): when every catalog marker equals its entry in the loaded
\* map, the run requests no content, dispatches no worker, and writes a
\* watermark file with the contents of the file it loaded.
C5_RewritesIdenticalContents ==
    pc \in {"save", "saving", "done"} /\ AllMatch =>
        /\ ~netUsed
        /\ fut = <<>>
        /\ pc = "done" => disk.complete /\ disk.map = old_meta

\* C5 (amended): when every catalog marker equals its entry in the loaded
\* map, the run requests no content, dispatches no worker, and writes
\* exactly the loaded entries of the identifiers in the filtered catalog;
\* loaded entries of identifiers no longer in the catalog are dropped.
C5_RewritesCatalogEntries ==
    pc \in {"save", "saving", "done"} /\ AllMatch =>
        /\ ~netUsed
        /\ fut = <<>>
        /\ pc = "done" =>
              /\ disk.complete
              /\ disk.map = Restrict(old_meta,
                                     {remote[k].identifier : k \in ThemeRecords})

\* an unchanged catalog that no longer lists a dataset the loaded map holds
C5_Witness ==
    /\ pc = "done"
    /\ todo = <<>> /\ catalog # <<>>
    /\ DOMAIN old_meta \ CatalogIds # {}

\* C6: when fetch_catalog fails the run ends there: nothing was dispatched
\* or requested, the next step is the end of the process, and the
\* watermark file is what it was when the run began.
C6_CatalogFailureAborts ==
    [][pc = "failed_catalog" =>
          /\ fut = <<>> /\ todo = <<>>
          /\ ~netUsed
          /\ disk = disk0
          /\ pc' = "idle"
          /\ disk' = disk]_vars

\* a catalog failure in a run that loaded a non-empty watermark file
C6_Witness ==
    /\ pc = "failed_catalog"
    /\ disk.complete
    /\ disk.map # EmptyMap

\* C7: in the run after a completed run, a dataset whose download failed
\* there is in the work list iff the catalog's marker for it differs from
\* the marker it had then.
C7_FailedNotRetriedUntilRepublished ==
    pc \in {"dispatch", "save"} =>
        \A k \in 1 .. Len(catalog) :
            catalog[k].identifier \in DOMAIN lastFailed =>
                ((catalog[k].identifier \in TodoIds) <=>
                    (catalog[k].modified # lastFailed[catalog[k].identifier]))

\* after a run in which both downloads failed: one dataset keeps its marker
\* and is skipped, the other has a new marker and is taken again
C7_Witness ==
    /\ pc = "dispatch"
    /\ Cardinality(DOMAIN lastFailed) = 2
    /\ \E k \in 1 .. Len(catalog) :
          /\ catalog[k].identifier \in DOMAIN lastFailed
          /\ catalog[k].identifier \notin TodoIds
    /\ \E i \in 1 .. Len(todo) : todo[i].identifier \in DOMAIN lastFailed

\* C8 (as stated): at every moment run_metadata.json holds the complete map
\* it held when the run began or the complete new map.
C8_SaveIsAtomic ==
    \/ disk = disk0
    \/ disk = FileOf(new_meta)

\* C9: while a dispatched download is queued, running or not yet collected,
\* main is in the collection loop: the watermark file is untouched and no
\* summary has been logged.
C9_SaveAfterJoinAll ==
    (\E i \in DOMAIN fut : fut[i].status # "collected") =>
        /\ pc = "collect"
        /\ disk = disk0
        /\ summary = <<>>

\* save_meta at work after two downloads were collected
C9_Witness ==
    /\ pc = "saving"
    /\ Len(todo) = 2
    /\ Collected = {1, 2}
    /\ disk # disk0

\* C10: at most MAX_THREADS downloads run at a time, and none runs while
\* main is anywhere but in the collection loop (load_meta, fetch_catalog
\* and save_meta are outside the pool).
C10_BoundedPool ==
    /\ Cardinality(Running(fut)) <= MAX_THREADS
    /\ pc # "collect" => Running(fut) = {}

\* all MAX_THREADS workers busy and a work item still queued
C10_Witness ==
    /\ Cardinality(Running(fut)) = MAX_THREADS
    /\ \E i \in DOMAIN fut : fut[i].status = "queued"

\* ------------------------------------- one dataset, any header of the table
HeaderChars == {" ", "'", "!", "_", "a", "A", "U+0130", "U+0307", "U+2102"}

\* " Patient's  Name! "
PatientsName ==
    <<" ", "P", "a", "t", "i", "e", "n", "t", "'", "s", " ", " ",
      "N", "a", "m", "e", "!", " ">>

\* "ZIP Code"
ZipCode == <<"Z", "I", "P", " ", "C", "o", "d", "e">>

\* the header strings a served table can have
Headers ==
    UNION {[1 .. n -> HeaderChars] : n \in 0 .. MaxHeaderLen}
    \cup {PatientsName, ZipCode, <<"a", " ", "!", " ", "a">>}

InitSnake ==
    /\ remote = <<Descriptor(1, 1, {THEME}, Downloadable)>>
    /\ disk = AbsentFile
    /\ pc = "idle"
    /\ NoProc
    /\ disk0 = AbsentFile
    /\ netUsed = FALSE
    /\ lastFailed = EmptyMap
    /\ \E h \in Headers : served = <<h>>

SpecSnake == InitSnake /\ [][NextPool]_vars

\* ------------------------------------------------------------------- C11
FirstCsvIndex(d) == Min({k \in 1 .. Len(d) : d[k].mediaType = "text/csv"})
HasCsv(d) == \E k \in 1 .. Len(d) : d[k].mediaType = "text/csv"

\* C11: for every work item, get_csv_url gives the download URL of the
\* first text/csv entry of the distribution list if there is one, else
\* the first entry's download URL if the list is not empty, else no URL;
\* with an empty list download returns the failed outcome whatever the
\* network would answer, and the future of such an item, once finished,
\* holds that outcome.
C11_UrlResolution ==
    /\ pc = "dispatch" =>
         \A i \in 1 .. Len(todo) :
            LET d == todo[i].distribution
                url == get_csv_url(todo[i])
            IN /\ HasCsv(d) => url = d[FirstCsvIndex(d)].downloadURL
               /\ ~HasCsv(d) /\ d # <<>> => url = d[1].downloadURL
               /\ d = <<>> =>
                     /\ url = None
                     /\ \A env \in Responses :
                           /\ download(todo[i], env).kind = "return"
                           /\ download(todo[i], env).value =
                                <<todo[i].identifier, todo[i].modified, FALSE>>
    /\ \A i \in DOMAIN fut :
         /\ fut[i].requested /\ HasCsv(todo[i].distribution) =>
               todo[i].distribution[FirstCsvIndex(todo[i].distribution)]
                   .downloadURL # None
         /\ fut[i].status \in {"finished", "collected"}
               /\ todo[i].distribution = <<>> =>
               /\ ~fut[i].raised
               /\ fut[i].result =
                    <<todo[i].identifier, todo[i].modified, FALSE>>
               /\ ~fut[i].requested

\* a work item whose text/csv entry is the third of its list, after an
\* entry of another type with another URL, has fetched it
C11_Witness ==
    \E i \in DOMAIN fut :
        LET d == todo[i].distribution
        IN /\ Len(d) = 3
           /\ d[1].mediaType # "text/csv" /\ d[2].mediaType # "text/csv"
           /\ d[3].mediaType = "text/csv"
           /\ d[1].downloadURL = 1 /\ d[3].downloadURL = 2
           /\ fut[i].status = "finished" /\ fut[i].result[3]
\* ------------------------------------------------------------------- C12
\* C12: to_snake is idempotent: the column names of every file the run has
\* written are what to_snake gave, and normalizing them again returns them
\* unchanged.
C12_ToSnakeIdempotent ==
    \A p \in DOMAIN files :
        /\ files[p] = NormalizeColumns(served)
        /\ NormalizeColumns(files[p]) = files[p]
\* ------------------------------------------------------------------- C13
Max(S) == CHOOSE x \in S : \A y \in S : x >= y

\* the positions of h left by the trimming and the two deletions
KeptPositions(h) ==
    LET NonSpace == {k \in 1 .. Len(h) : ~IsSpace(h[k])}
    IN IF NonSpace = {} THEN {}
       ELSE {k \in Min(NonSpace) .. Max(NonSpace) :
                h[k] # "'" /\ (IsWord(h[k]) \/ IsSpace(h[k]))}

\* position k holds the first whitespace character of a maximal run of
\* whitespace of what the deletions left
HeadsRun(h, k) ==
    /\ IsSpace(h[k])
    /\ LET Before == {j \in KeptPositions(h) : j < k}
       IN Before # {} => ~IsSpace(h[Max(Before)])

RECURSIVE Emit(_, _)
\* one underscore for every run, the lowercase form of every other
\* character, in the order of the positions S
Emit(h, S) ==
    IF S = {} THEN <<>>
    ELSE LET k == Min(S)
         IN (IF IsSpace(h[k]) THEN <<"_">> ELSE Lower(h[k]))
              \o Emit(h, S \ {k})

\* trim, delete apostrophes, delete what is neither word character nor
\* whitespace, one underscore per maximal run of whitespace, lowercase
Canonical(h) ==
    Emit(h, {k \in KeptPositions(h) : IsWord(h[k]) \/ HeadsRun(h, k)})

\* str.isupper() of one character
IsUpper(c) == c \in UpperLetters \cup {"U+0130", "U+2102"}
IsPunctuation(c) == c \in {"'", "!"}

\* every column name of every written file is the canonical form of the
\* served header, without whitespace, without a character of Upper and
\* without punctuation, and the two examples are normalized as stated
SnakeContract(Upper) ==
    \A p \in DOMAIN files : \A k \in 1 .. Len(served) :
        LET name == files[p][k]
        IN /\ name = Canonical(served[k])
           /\ \A j \in 1 .. Len(name) :
                 /\ ~IsSpace(name[j])
                 /\ name[j] \notin Upper
                 /\ ~IsPunctuation(name[j])
           /\ served[k] = PatientsName =>
                 name = <<"p", "a", "t", "i", "e", "n", "t", "s", "_",
                          "n", "a", "m", "e">>
           /\ served[k] = ZipCode =>
                 name = <<"z", "i", "p", "_", "c", "o", "d", "e">>

C14_OneRequestPerItem ==
    pc = "dispatch" =>
        \A i \in 1 .. Len(todo) : \A env \in Responses :
            get_csv_url(todo[i]) # None =>
                download(todo[i], env).requests = 1

\* ------------------------------------------------------------------- C15
Rungs == <<"strict", "skip", "latin">>

\* C15: for a work item whose content was retrieved, the parse attempts
\* are the rungs strict, skip, latin in this order up to the first that
\* succeeds; the item fails at the parse stage only after all three were
\* made and failed, and the column names are normalized and the file is
\* written as soon as one succeeds.
C15_ParseLadder ==
    pc = "dispatch" =>
        \A i \in 1 .. Len(todo) : \A env \in Responses :
            get_csv_url(todo[i]) # None /\ env.get = "ok" =>
                LET parse == ParseLadder(env)
                    n == Len(parse.attempts)
                IN /\ parse.attempts = SubSeq(Rungs, 1, n)
                   /\ \A k \in 1 .. n - 1 : env[Rungs[k]] # "ok"
                   /\ parse.ok => env[Rungs[n]] = "ok"
                   /\ ~parse.ok => n = 3 /\ env[Rungs[3]] # "ok"
                   /\ parse.ok /\ env.to_csv = "ok" =>
                         download(todo[i], env).value[3]

\* ------------------------------------------------------------------- C16
\* C16: every request of a run has the timeout, so that no worker thread
\* is ever blocked in a request that gets no answer.
C16_NoBlockedWorker ==
    \A i \in DOMAIN fut : fut[i].status # "blocked"
\* ------------------------------------------------------------------- C17
\* identifiers of the served records whose theme list contains THEME
ThemeIds == {remote[k].identifier : k \in ThemeRecords}

\* C17: once the catalog is scanned, the keys of the new map are exactly
\* the identifiers of the served records with the theme, and the work list
\* holds only such records; the file being written holds only such keys,
\* and the saved file holds exactly them, so that no key of the loaded
\* map outside the filtered catalog is saved.
C17_SavedKeysAreFilteredCatalog ==
    /\ pc \in {"dispatch", "collect", "save", "saving", "report", "done"} =>
         /\ DOMAIN new_meta = ThemeIds
         /\ TodoIds \subseteq ThemeIds
    /\ pc = "saving" => DOMAIN disk.map \subseteq ThemeIds
    /\ pc \in {"report", "done"} =>
         /\ disk.complete
         /\ DOMAIN disk.map = ThemeIds
         /\ DOMAIN disk.map \cap (DOMAIN old_meta \ ThemeIds) = {}

\* a run has saved the map for a catalog in which a dataset of the loaded
\* map is served without the theme, next to a dataset with the theme
C17_Witness ==
    /\ pc = "done"
    /\ ThemeIds # {}
    /\ \E k \in 1 .. Len(remote) :
          /\ THEME \notin remote[k].theme
          /\ remote[k].identifier \in DOMAIN old_meta
          /\ remote[k].identifier \notin DOMAIN disk.map
\* ------------------------------------------------------------------- C18
\* C18: when the work list is dispatched the new map has an entry for
\* every record of the scanned catalog; no step from the dispatch to the
\* end of save_meta changes it, whichever download starts, finishes,
\* blocks or is collected; and the file save_meta completes holds it.
C18_NewMapFrozenAfterScan ==
    [][/\ pc = "dispatch" => DOMAIN new_meta = CatalogIds
       /\ pc \in {"dispatch", "collect", "save", "saving"} =>
             new_meta' = new_meta
       /\ pc = "saving" /\ pc' \in {"report", "done"} =>
             disk'.map = new_meta]_vars

\* the map is saved after one download succeeded and one failed
C18_Witness ==
    /\ pc = "report"
    /\ Succeeded # {} /\ Failed # {}
    /\ disk = FileOf(new_meta)
\* ------------------------------------------------------------------- C19
\* C19: the output paths of the work items of a run are pairwise distinct,
\* and a step that creates or changes a file is the end of the download of
\* the one work item whose path it is; so two downloads at work never
\* have the same file to write.
C19_DistinctOutputFiles ==
    [][/\ \A i, j \in 1 .. Len(todo) :
             i # j => OutPath(todo[i]) # OutPath(todo[j])
       /\ \A p \in DOMAIN files' :
             (p \notin DOMAIN files \/ files'[p] # files[p]) =>
                 \E i \in DOMAIN fut :
                     /\ OutPath(todo[i]) = p
                     /\ fut[i].status = "running"
                     /\ fut'[i].status = "finished"
                     /\ \A j \in DOMAIN fut \ {i} : fut'[j] = fut[j]]_vars

\* two downloads of datasets with the same marker have each written a file
C19_Witness ==
    /\ Len(todo) = 2
    /\ todo[1].modified = todo[2].modified
    /\ fut # <<>> /\ fut[1].wrote /\ fut[2].wrote
    /\ DOMAIN files = {OutPath(todo[1]), OutPath(todo[2])}
    /\ Cardinality(DOMAIN files) = 2
\* ------------------------------------------------------------------- C20
\* the output files whose write completed
WrittenFiles == DOMAIN files

====
